---- MODULE Spec2Model ----
(***************************************************************************)
(* Model of the incremental semantic-similarity index of JiraAgent:        *)
(*   core/Index.py            add_index_new_Data and its helpers           *)
(*   core/Reference_Issue.py  find_reference_issues                        *)
(* The persisted store is three files (metadata JSON, embedding matrix,    *)
(* Annoy artifact).  An indexing run is a sequence of steps (load and      *)
(* classify, encode, write metadata, write matrix, build Annoy); a query   *)
(* is one step.                                                            *)
(***************************************************************************)
EXTENDS Integers, Sequences, FiniteSets, TLC

(***************************************************************************)
(* Bounds of the model.                                                    *)
(***************************************************************************)
MaxRows == 3
MaxBatch == 2
MaxTopK == 1
MaxQuery == 1
MaxStore == 3
MaxStoreBatch == 2
MaxPipelineBatch == 1

(***************************************************************************)
(* Python values.  None is Python's None; a field that is absent from a    *)
(* dict is absent from the DOMAIN of the record that models it.            *)
(***************************************************************************)
None == "<None>"

_DEFAULT_DIM == 2
_DEFAULT_KEY_FIELD == "Issue key"

\* dimensions an embedding model / a configuration may have
Dims == {_DEFAULT_DIM, _DEFAULT_DIM + 1}

\* fixed-point scale of a unit vector: a component c stands for c / Scale
Scale == 100

Truthy(v) == v # None /\ v # ""

\* dict.get(f) and dict.get(f, default)
Get(t, f) == IF f \in DOMAIN t THEN t[f] ELSE None
GetD(t, f, default) == IF f \in DOMAIN t THEN t[f] ELSE default

\* a or b
Or(a, b) == IF Truthy(a) THEN a ELSE b

\* the key of a query record
_safe_key(issue, key_field) ==
    Or(Get(issue, key_field), Or(Get(issue, "Issue id"), Or(Get(issue, "Summary"), "")))

\* the fallback to the body forgotten
IndexKeyNoSummary(t, key_field) == Or(Get(t, key_field), Or(Get(t, "Issue id"), ""))

\* the key of a record in add_index_new_Data
IndexKey(t, key_field) ==
    Or(Get(t, key_field), Or(Get(t, "Issue id"), Or(Get(t, "Summary"), "")))

(***************************************************************************)
(* str(i) and int(k) for the row ids used as JSON object keys.             *)
(***************************************************************************)
Digits == <<"0", "1", "2", "3", "4", "5", "6", "7", "8", "9">>

RECURSIVE Str(_)
Str(i) == IF i < 10 THEN Digits[i + 1] ELSE Str(i \div 10) \o Digits[(i % 10) + 1]

ParseInt(s) == CHOOSE i \in 0..99 : Str(i) = s

(***************************************************************************)
(* A Python dict with string keys: a sequence of <<key, value>> items in   *)
(* insertion order, keys unique.                                           *)
(***************************************************************************)
DictKeys(d) == {d[i][1] : i \in 1..Len(d)}
DictGet(d, k) == IF k \in DictKeys(d) THEN d[CHOOSE i \in 1..Len(d) : d[i][1] = k][2] ELSE None
DictSet(d, k, v) ==
    IF k \in DictKeys(d)
    THEN [i \in 1..Len(d) |-> IF d[i][1] = k THEN <<k, v>> ELSE d[i]]
    ELSE Append(d, <<k, v>>)

(***************************************************************************)
(* The embedding service and L2 normalisation.                             *)
(***************************************************************************)
\* raw output of the model for a text, in its first two components
Base(text) ==
    CASE text = "s1" -> <<3, 4>>
      [] text = "s2" -> <<8, 6>>
      [] text = "s3" -> <<-4, 3>>
      [] OTHER -> <<0, 0>>

\* model.encode of one text by a model of output dimension d
RECURSIVE Encode(_, _)
Encode(text, d) ==
    IF d = 0 THEN <<>>
    ELSE Append(Encode(text, d - 1), IF d <= 2 THEN Base(text)[d] ELSE 0)

RECURSIVE SumSq(_)
SumSq(v) == IF v = <<>> THEN 0 ELSE v[1] * v[1] + SumSq(Tail(v))

\* the integer square root of n, by bisection of lo..hi (lo * lo <= n < hi * hi)
RECURSIVE ISqrtIn(_, _, _)
ISqrtIn(n, lo, hi) ==
    IF hi - lo <= 1 THEN lo
    ELSE LET mid == (lo + hi) \div 2
         IN IF mid * mid <= n THEN ISqrtIn(n, mid, hi) ELSE ISqrtIn(n, lo, mid)

ISqrt(n) == ISqrtIn(n, 0, n + 1)

\* np.linalg.norm of one row
Norm(v) == ISqrt(SumSq(v))

\* one row of a / norms with norms[norms == 0] = 1e-9: a zero row stays zero
RECURSIVE DivideBy(_, _)
DivideBy(v, n) ==
    IF v = <<>> THEN <<>>
    ELSE <<IF n = 0 THEN 0 ELSE (v[1] * Scale) \div n>> \o DivideBy(Tail(v), n)

_l2_normalize(v) == DivideBy(v, Norm(v))

RECURSIVE Dot(_, _)
Dot(a, b) == IF a = <<>> THEN 0 ELSE a[1] * b[1] + Dot(Tail(a), Tail(b))

(***************************************************************************)
(* Input records.  A record is a Python dict.  The pool has a key with two *)
(* owners and two bodies (once as "Issue key", once through the "Issue id" *)
(* fallback), a second key whose record has no "Summary", a record whose   *)
(* key is its "Summary", and a record with no derivable key.               *)
(***************************************************************************)
RecordPool == {
    ("Issue key" :> "K1") @@ ("Summary" :> "s1") @@ ("Assignee" :> "a1"),
    ("Issue key" :> "K1") @@ ("Summary" :> "s1") @@ ("Assignee" :> "a2"),
    ("Issue key" :> "") @@ ("Issue id" :> "K1") @@ ("Summary" :> "s3") @@ ("Assignee" :> "a1"),
    ("Issue key" :> "K2") @@ ("Assignee" :> "a2"),
    ("Summary" :> "s2"),
    ("Issue key" :> "") @@ ("Assignee" :> "a1")
}

RECURSIVE SeqsUpTo(_, _)
SeqsUpTo(S, n) ==
    IF n = 0 THEN {<<>>}
    ELSE LET shorter == SeqsUpTo(S, n - 1)
         IN shorter \cup {Append(q, x) : q \in {r \in shorter : Len(r) = n - 1}, x \in S}

Batches == SeqsUpTo(RecordPool, MaxBatch)

(***************************************************************************)
(* The persisted files.  A file that does not exist is None.               *)
(*   metaFile  the JSON object {"<row id>": entry}, as a dict in .data     *)
(*   embFile   the .npy matrix: .dim columns, the row vectors in .rows     *)
(*   annFile   the Annoy artifact: item i-1 is .rows[i]                    *)
(* .exists tells whether the file is on disk.                              *)
(***************************************************************************)
VARIABLES metaFile, embFile, annFile, jsonStore, csvFile, pc, run, call, ret, pre

vars == <<metaFile, embFile, annFile, jsonStore, csvFile, pc, run, call, ret, pre>>

files == <<metaFile, embFile, annFile>>

\* the JSON store of normalised issues (ASSIGNEE_JSON) and the rotation file
\* (ASSIGNEE_CSV)
assignFiles == <<jsonStore, csvFile>>

Matrix(d, rows) == [dim |-> d, rows |-> rows]

NoMetaFile == [exists |-> FALSE, data |-> <<>>]
NoMatrixFile == [exists |-> FALSE, dim |-> 0, rows |-> <<>>]

MetaFileOf(meta) == [exists |-> TRUE, data |-> meta]
MatrixFileOf(m) == [exists |-> TRUE, dim |-> m.dim, rows |-> m.rows]

\* os.path.exists
Exists(f) == f.exists

\* _load_meta_embs: <<ok, meta, embs>>; ok = FALSE is the ValueError
_load_meta_embs(meta_file, emb_file, dim) ==
    IF Exists(meta_file) /\ Exists(emb_file)
    THEN IF emb_file.dim # dim
         THEN [ok |-> FALSE, meta |-> <<>>, embs |-> Matrix(dim, <<>>)]
         ELSE [ok |-> TRUE, meta |-> meta_file.data, embs |-> Matrix(emb_file.dim, emb_file.rows)]
    ELSE [ok |-> TRUE, meta |-> <<>>, embs |-> Matrix(dim, <<>>)]

\* {v["key"]: int(k) for k, v in meta.items()}: the last item of a key wins
HasKey(meta, key) == \E i \in 1..Len(meta) : meta[i][2]["key"] = key

existing_key_to_idx(meta, key) ==
    LET last == CHOOSE i \in 1..Len(meta) :
                    /\ meta[i][2]["key"] = key
                    /\ \A j \in (i + 1)..Len(meta) : meta[j][2]["key"] # key
    IN ParseInt(meta[last][1])

\* the raw key field stored as the key, the fallbacks forgotten
FirstBuildEntryRawKey(t, key) ==
    ("key" :> Get(t, "Issue key")) @@ ("Issue id" :> Get(t, "Issue id"))
        @@ ("Issue key" :> Get(t, "Issue key"))
        @@ ("Summary" :> Get(t, "Summary")) @@ ("Assignee" :> Get(t, "Assignee"))

\* the entry appended to metas in the first-build loop
FirstBuildEntry(t, key) ==
    ("key" :> key) @@ ("Issue id" :> Get(t, "Issue id")) @@ ("Issue key" :> Get(t, "Issue key"))
        @@ ("Summary" :> Get(t, "Summary")) @@ ("Assignee" :> Get(t, "Assignee"))

\* the entry appended to metas_to_add in the incremental loop
IncrementalEntry(t, key) ==
    ("key" :> key) @@ ("Issue id" :> Get(t, "Issue id")) @@ ("Issue key" :> Get(t, "Issue key"))
        @@ ("Summary" :> GetD(t, "Summary", "")) @@ ("Assignee" :> Get(t, "Assignee"))

\* the test of the incremental loop: key-bearing and new or changed
NewOrChanged(t, meta, key_field) ==
    LET key == IndexKey(t, key_field)
        summary == GetD(t, "Summary", "")
        assignee == Get(t, "Assignee")
    IN /\ key # ""
       /\ \/ ~HasKey(meta, key)
          \/ LET idx == Str(existing_key_to_idx(meta, key))
                 stored == DictGet(meta, idx)
             IN \/ idx \notin DictKeys(meta)
                \/ stored["Summary"] # summary
                \/ stored["Assignee"] # assignee

\* the records a run embeds, in batch order
Selected(issues, meta, key_field) ==
    IF meta = <<>>
    THEN SelectSeq(issues, LAMBDA t : IndexKey(t, key_field) # "")
    ELSE SelectSeq(issues, LAMBDA t : NewOrChanged(t, meta, key_field))

\* texts / texts_to_embed
Texts(issues, meta, key_field) ==
    LET sel == Selected(issues, meta, key_field)
    IN [i \in 1..Len(sel) |-> GetD(sel[i], "Summary", "")]

\* metas / metas_to_add
Metas(issues, meta, key_field) ==
    LET sel == Selected(issues, meta, key_field)
    IN [i \in 1..Len(sel) |->
           IF meta = <<>>
           THEN FirstBuildEntry(sel[i], IndexKey(sel[i], key_field))
           ELSE IncrementalEntry(sel[i], IndexKey(sel[i], key_field))]

\* _l2_normalize(model.encode(texts)) for a model of output dimension d
RECURSIVE EncodeAll(_, _)
EncodeAll(texts, d) ==
    IF texts = <<>> THEN <<>>
    ELSE <<_l2_normalize(Encode(texts[1], d))>> \o EncodeAll(Tail(texts), d)

(***************************************************************************)
(* add_index_new_Data.  The statements after the classification run in    *)
(* the order of ApplySteps.  pc = 0 when no call is in progress, pc = i in *)
(* 1..Len(ApplySteps) when ApplySteps[i] is the next statement of a run,   *)
(* and pc = Returned when a call has handed its result (ret) to its caller.*)
(***************************************************************************)
\* the metadata written before the embedding call
ApplyStepsSaveFirst == <<"save_meta", "encode", "save_embs", "annoy">>

ApplySteps == <<"encode", "save_meta", "save_embs", "annoy">>

Returned == Len(ApplySteps) + 1

NoRun == [dim |-> _DEFAULT_DIM, meta |-> <<>>, embs |-> Matrix(_DEFAULT_DIM, <<>>),
          texts |-> <<>>, metas |-> <<>>, new_embs |-> <<>>]

NoCall == [op |-> "none", issues |-> <<>>, dim |-> _DEFAULT_DIM, top_k |-> 0,
           score_threshold |-> 0, debug |-> FALSE, sims |-> <<>>, orders |-> <<>>]

NoRet == [status |-> "none", added |-> 0, index_size |-> 0, results |-> <<>>,
          potential_assignee |-> None, loaded |-> 0, skipped_duplicates |-> 0, existing |-> 0]

NoCsvFile == [exists |-> FALSE, rows |-> <<>>]
NoJsonStore == [exists |-> FALSE, data |-> <<>>]

\* the files as a call finds them
NoPre == [meta |-> NoMetaFile, embs |-> NoMatrixFile, ann |-> NoMatrixFile,
          json |-> NoJsonStore, csv |-> NoCsvFile]

Snapshot == [meta |-> metaFile, embs |-> embFile, ann |-> annFile,
             json |-> jsonStore, csv |-> csvFile]

ApplyRet(status, added, index_size) ==
    [NoRet EXCEPT !.status = status, !.added = added, !.index_size = index_size]

\* meta after "meta = {str(i): metas[i] ...}" / "meta[str(n_before + i)] = m"
RECURSIVE AppendMetas(_, _, _, _)
AppendMetas(meta, metas, n_before, i) ==
    IF i > Len(metas) THEN meta
    ELSE AppendMetas(DictSet(meta, Str(n_before + i - 1), metas[i]), metas, n_before, i + 1)

\* n_before one too low: the first new row takes the id of the last old row
NBeforeLow(meta) == IF meta = <<>> THEN 0 ELSE Len(meta) - 1

NBefore(meta) == Len(meta)

NewMeta(r) == AppendMetas(r.meta, r.metas, NBefore(r.meta), 1)

\* embs = new_embs on every run, the np.vstack forgotten
NewEmbsOnly(r) == Matrix(r.dim, r.new_embs)

\* embs after "embs = new_embs" / np.vstack([embs, new_embs])
NewEmbs(r) ==
    IF r.meta = <<>> \/ r.embs.rows = <<>>
    THEN Matrix(r.dim, r.new_embs)
    ELSE Matrix(r.embs.dim, r.embs.rows \o r.new_embs)

\* an artifact that is on disk is kept, the rebuild left out
BuildAnnoyKeepsOld(embs, ann_file, dim) ==
    IF embs.rows = <<>> THEN NoMatrixFile
    ELSE IF Exists(ann_file) THEN ann_file
    ELSE MatrixFileOf(Matrix(dim, embs.rows))

\* _build_and_save_annoy: the artifact left on disk
_build_and_save_annoy(embs, ann_file, dim) ==
    IF embs.rows = <<>> THEN NoMatrixFile ELSE MatrixFileOf(Matrix(dim, embs.rows))

Rows(f) == Len(f.data)
MatrixRows(f) == Len(f.rows)

\* the locals of a run when it reaches its first call of the embedding service
Plan(meta_file, emb_file, issues, embed_dim) ==
    LET loaded == _load_meta_embs(meta_file, emb_file, embed_dim)
    IN [ok |-> loaded.ok, dim |-> embed_dim, meta |-> loaded.meta, embs |-> loaded.embs,
        texts |-> Texts(issues, loaded.meta, _DEFAULT_KEY_FIELD),
        metas |-> Metas(issues, loaded.meta, _DEFAULT_KEY_FIELD)]

\* no_data for every run that has nothing to embed
EarlyRetAlwaysNoData(plan) ==
    IF ~plan.ok THEN ApplyRet("ValueError", 0, 0)
    ELSE IF plan.texts # <<>> THEN NoRet
    ELSE ApplyRet("no_data", 0, 0)

\* what the run returns (or raises) before that call; "none" when it goes on
EarlyRet(plan) ==
    IF ~plan.ok THEN ApplyRet("ValueError", 0, 0)
    ELSE IF plan.texts # <<>> THEN NoRet
    ELSE IF plan.meta = <<>> THEN ApplyRet("no_data", 0, 0)
    ELSE ApplyRet("no_new_or_changed", 0, Len(plan.embs.rows))

\* the run up to the first call of the embedding service
ApplyBegin(issues, embed_dim) ==
    LET plan == Plan(metaFile, embFile, issues, embed_dim)
    IN /\ pc = 0
       /\ Len(plan.meta) + Len(plan.texts) <= MaxRows
       /\ call' = [NoCall EXCEPT !.op = "apply", !.issues = issues, !.dim = embed_dim]
       /\ pre' = Snapshot
       /\ ret' = EarlyRet(plan)
       /\ IF EarlyRet(plan) # NoRet
          THEN /\ pc' = Returned
               /\ UNCHANGED run
          ELSE /\ pc' = 1
               /\ run' = [dim |-> embed_dim, meta |-> plan.meta, embs |-> plan.embs,
                          texts |-> plan.texts, metas |-> plan.metas, new_embs |-> <<>>]
       /\ UNCHANGED <<files, assignFiles>>

AtStep(name) == pc \in 1..Len(ApplySteps) /\ ApplySteps[pc] = name

\* the value add_index_new_Data returns after its last step
FinalRet(r) ==
    IF r.meta = <<>>
    THEN ApplyRet("built_from_all", Len(r.metas), Len(NewEmbs(r).rows))
    ELSE ApplyRet("incremental_ok", Len(r.metas), Len(NewEmbs(r).rows))

Advance ==
    IF pc = Len(ApplySteps)
    THEN /\ pc' = Returned
         /\ ret' = FinalRet(run)
    ELSE /\ pc' = pc + 1
         /\ UNCHANGED ret

\* model.encode succeeds
EncodeOk ==
    /\ AtStep("encode")
    /\ run' = [run EXCEPT !.new_embs = EncodeAll(run.texts, run.dim)]
    /\ Advance
    /\ UNCHANGED <<files, assignFiles, call, pre>>

\* model.encode raises: the exception leaves add_index_new_Data
EncodeFail ==
    /\ AtStep("encode")
    /\ pc' = Returned
    /\ ret' = ApplyRet("EmbeddingError", 0, 0)
    /\ UNCHANGED <<files, assignFiles, run, call, pre>>

\* json.dump(meta) in _save_meta_embs
SaveMeta ==
    /\ AtStep("save_meta")
    /\ metaFile' = MetaFileOf(NewMeta(run))
    /\ Advance
    /\ UNCHANGED <<embFile, annFile, assignFiles, run, call, pre>>

\* np.save(emb_path, embs) in _save_meta_embs
SaveEmbs ==
    /\ AtStep("save_embs")
    /\ embFile' = MatrixFileOf(NewEmbs(run))
    /\ Advance
    /\ UNCHANGED <<metaFile, annFile, assignFiles, run, call, pre>>

BuildAnnoy ==
    /\ AtStep("annoy")
    /\ annFile' = _build_and_save_annoy(NewEmbs(run), annFile, run.dim)
    /\ Advance
    /\ UNCHANGED <<metaFile, embFile, assignFiles, run, call, pre>>

\* the process dies in the middle of a run; the files stay as they are
Crash ==
    /\ pc \in 1..Len(ApplySteps)
    /\ pc' = Returned
    /\ ret' = ApplyRet("crashed", 0, 0)
    /\ UNCHANGED <<files, assignFiles, run, call, pre>>

\* the caller is done with the result of the call
CallerDone ==
    /\ pc = Returned
    /\ pc' = 0
    /\ run' = NoRun
    /\ call' = NoCall
    /\ ret' = NoRet
    /\ pre' = NoPre
    /\ UNCHANGED <<files, assignFiles>>

(***************************************************************************)
(* assign_lru (core/Pot_Assignee.py): the rotation of assignees.  The CSV  *)
(* file is its list of names in .rows (the header row left out), the JSON  *)
(* store the list of issues in .data.                                      *)
(***************************************************************************)
\* names that stand for "nobody"; the names of the model are lower case
NullNames == {"", "none", "null", "unassigned", "n/a"}

AssigneeFields == <<"assignee", "Assignee", "assigneeName", "owner", "assigned_to">>

RECURSIVE ExtractFrom(_, _)
ExtractFrom(issue, i) ==
    IF i > Len(AssigneeFields) THEN None
    ELSE LET v == Get(issue, AssigneeFields[i])
         IN IF Truthy(v) /\ v \notin NullNames THEN v ELSE ExtractFrom(issue, i + 1)

_extract_assignee(issue) == ExtractFrom(issue, 1)

\* the keys of an OrderedDict filled with the names of s in order
RECURSIVE Distinct(_, _)
Distinct(s, acc) ==
    IF s = <<>> THEN acc
    ELSE Distinct(Tail(s),
                  IF s[1] = None \/ s[1] \in NullNames \/ \E j \in 1..Len(acc) : acc[j] = s[1]
                  THEN acc ELSE Append(acc, s[1]))

_load_assignees_from_json(json_file) ==
    IF ~Exists(json_file) THEN <<>>
    ELSE Distinct([i \in 1..Len(json_file.data) |-> _extract_assignee(json_file.data[i])], <<>>)

\* lru as assign_lru has it before it picks
LoadLru(json_file, csv_file) ==
    IF Exists(csv_file)
    THEN LET lru == Distinct(csv_file.rows, <<>>)
         IN IF lru = <<>> /\ Exists(json_file) THEN _load_assignees_from_json(json_file)
            ELSE lru
    ELSE _load_assignees_from_json(json_file)

\* the picked name left at the front, move_to_end forgotten
AssignLruNoRotate(json_file, csv_file) ==
    LET lru == LoadLru(json_file, csv_file)
    IN IF lru = <<>> THEN [assignee |-> None, csv |-> csv_file]
       ELSE [assignee |-> lru[1], csv |-> [exists |-> TRUE, rows |-> lru]]

\* the name assign_lru returns and the CSV file it leaves
assign_lru(json_file, csv_file) ==
    LET lru == LoadLru(json_file, csv_file)
    IN IF lru = <<>> THEN [assignee |-> None, csv |-> csv_file]
       ELSE [assignee |-> lru[1],
             csv |-> [exists |-> TRUE, rows |-> Append(Tail(lru), lru[1])]]

\* n calls of assign_lru in a row: the last name returned and the file left
RECURSIVE AssignTimes(_, _, _)
AssignTimes(n, json_file, csv_file) ==
    IF n <= 1 THEN assign_lru(json_file, csv_file)
    ELSE AssignTimes(n - 1, json_file, assign_lru(json_file, csv_file).csv)

(***************************************************************************)
(* append_to_json_store (core/ingest.py): one atomic replacement of the    *)
(* JSON store.                                                             *)
(***************************************************************************)
\* the lookup in existing_by_key left out
InStoreNever(existing, k, key_field) == FALSE

\* existing_by_key has the key k
InStore(existing, k, key_field) ==
    \E i \in 1..Len(existing) : Get(existing[i], key_field) = k

\* the loop over new_issues: acc holds existing, added and skipped
RECURSIVE AppendNew(_, _, _)
AppendNew(acc, new_issues, key_field) ==
    IF new_issues = <<>> THEN acc
    ELSE LET it == new_issues[1]
             k == Get(it, key_field)
         IN AppendNew(IF k # None /\ InStore(acc.existing, k, key_field)
                      THEN [acc EXCEPT !.skipped = @ + 1]
                      ELSE [acc EXCEPT !.existing = Append(@, it), !.added = @ + 1],
                      Tail(new_issues), key_field)

\* the store file the call leaves and the summary it returns
append_to_json_store(json_file, new_issues, key_field) ==
    LET out == AppendNew([existing |-> json_file.data, added |-> 0, skipped |-> 0],
                         new_issues, key_field)
    IN [file |-> [exists |-> TRUE, data |-> out.existing],
        ret |-> [NoRet EXCEPT !.status = "appended", !.loaded = out.added,
                              !.skipped_duplicates = out.skipped,
                              !.existing = Len(out.existing)]]

\* the normalised issues the ingest step and assign_lru's store hold
StorePool ==
    { ("Issue key" :> "K1") @@ ("Summary" :> "s1") @@ ("Assignee" :> "a1"),
      ("Issue key" :> "K1") @@ ("Summary" :> "s1") @@ ("Assignee" :> "a2"),
      ("Issue key" :> "K2") @@ ("Assignee" :> "a2"),
      ("Issue key" :> None) @@ ("Assignee" :> "a1") }

StoreBatches == SeqsUpTo(StorePool, MaxStoreBatch)

AppendToJsonStore ==
    /\ pc = 0
    /\ \E new_issues \in StoreBatches :
           LET out == append_to_json_store(jsonStore, new_issues, "Issue key")
           IN /\ Len(out.file.data) <= MaxStore
              /\ jsonStore' = out.file
              /\ ret' = out.ret
              /\ call' = [NoCall EXCEPT !.op = "append", !.issues = new_issues]
    /\ pre' = Snapshot
    /\ pc' = Returned
    /\ UNCHANGED <<files, csvFile, run>>

\* assign_lru called on its own (the script part of Pot_Assignee.py)
AssignLru ==
    /\ pc = 0
    /\ csvFile' = assign_lru(jsonStore, csvFile).csv
    /\ ret' = [NoRet EXCEPT !.status = "assigned",
                            !.potential_assignee = assign_lru(jsonStore, csvFile).assignee]
    /\ call' = [NoCall EXCEPT !.op = "assign"]
    /\ pre' = Snapshot
    /\ pc' = Returned
    /\ UNCHANGED <<files, jsonStore, run>>

(***************************************************************************)
(* find_reference_issues.  Scores are dot products of vectors of scale     *)
(* Scale, so a score s stands for s / (Scale * Scale) and a threshold is   *)
(* given in the same unit.                                                 *)
(***************************************************************************)
One == Scale * Scale

Thresholds == {0, (96 * One) \div 100, One}

QueryBatches == SeqsUpTo(RecordPool, MaxQuery)

Min(a, b) == IF a <= b THEN a ELSE b

\* s[:n] for n >= 0
Take(s, n) == SubSeq(s, 1, Min(n, Len(s)))

\* stored_embs / s_norms and q_embs / q_norms
RECURSIVE NormalizeRows(_)
NormalizeRows(rows) ==
    IF rows = <<>> THEN <<>> ELSE <<_l2_normalize(rows[1])>> \o NormalizeRows(Tail(rows))

\* model.encode(summaries) of the query, normalised
RECURSIVE QEmbs(_, _)
QEmbs(issues, q_dim) ==
    IF issues = <<>> THEN <<>>
    ELSE <<_l2_normalize(Encode(GetD(issues[1], "Summary", ""), q_dim))>>
             \o QEmbs(Tail(issues), q_dim)

RECURSIVE SimRow(_, _)
SimRow(q, stored) ==
    IF stored = <<>> THEN <<>> ELSE <<Dot(q, stored[1])>> \o SimRow(q, Tail(stored))

\* sims = np.dot(q_embs, stored_embs.T), one row per issue
RECURSIVE Dots(_, _)
Dots(q_embs, stored) ==
    IF q_embs = <<>> THEN <<>> ELSE <<SimRow(q_embs[1], stored)>> \o Dots(Tail(q_embs), stored)

\* the dimension check left out
DimMismatchUnchecked(q_dim, stored_dim) == FALSE

\* the dimension check "q_dim != stored_dim"
DimMismatch(q_dim, stored_dim) == q_dim # stored_dim

\* the matrix sims of a call; <<>> when the call ends before it has computed it
Sims(issues, meta_file, emb_file, q_dim) ==
    IF ~Exists(emb_file) \/ ~Exists(meta_file) \/ q_dim # emb_file.dim
    THEN <<>>
    ELSE Dots(QEmbs(issues, q_dim), NormalizeRows(emb_file.rows))

\* the results np.argsort(-row) may give: row indices (from 0) by descending
\* score; the sort is not stable, so equal scores come in any order
IsArgsort(o, row) ==
    /\ \A i, j \in 1..Len(row) : i # j => o[i] # o[j]
    /\ \A i \in 1..(Len(row) - 1) : row[o[i] + 1] >= row[o[i + 1] + 1]

Argsorts(row) ==
    UNION {{o \in [1..Len(r) -> 0..(Len(r) - 1)] : IsArgsort(o, r)} : r \in {row}}

\* idx_to_meta = {int(k): v ...}; idx_to_meta.get(idx)
InIdxToMeta(meta, idx) == \E i \in 1..Len(meta) : ParseInt(meta[i][1]) = idx
IdxToMeta(meta, idx) == meta[CHOOSE i \in 1..Len(meta) : ParseInt(meta[i][1]) = idx][2]

CandidateKey(meta_entry) ==
    Or(Get(meta_entry, "key"), Or(Get(meta_entry, "Issue key"), Or(Get(meta_entry, "Issue id"), "")))

\* the self-match test left out
IsSelfMatchNever(candidate_key, input_key) == FALSE

IsSelfMatch(candidate_key, input_key) ==
    candidate_key # "" /\ input_key # "" /\ candidate_key = input_key

\* the comparison turned round
BelowThresholdInverted(score, score_threshold) == score > score_threshold

BelowThreshold(score, score_threshold) == score < score_threshold

\* the window of candidates the filter loop looks at
TopIdxs(order, top_k) == Take(order, top_k * 2)

\* the loop "for idx in top_idxs" from position i on, acc = what it has collected
RECURSIVE FilterLoop(_, _, _, _, _, _, _, _, _)
FilterLoop(top_idxs, i, acc, row, meta, input_key, top_k, score_threshold, debug) ==
    IF i > Len(top_idxs) THEN acc
    ELSE LET idx == top_idxs[i]
             rest(a) == FilterLoop(top_idxs, i + 1, a, row, meta, input_key, top_k,
                                   score_threshold, debug)
         IN IF ~InIdxToMeta(meta, idx) THEN rest(acc)
            ELSE LET meta_entry == IdxToMeta(meta, idx)
                     candidate_key == CandidateKey(meta_entry)
                     score == row[idx + 1]
                 IN IF IsSelfMatch(candidate_key, input_key)
                    THEN rest(IF debug
                              THEN [acc EXCEPT !.self_skips = Append(@, idx)]
                              ELSE acc)
                    ELSE IF BelowThreshold(score, score_threshold)
                    THEN rest([acc EXCEPT !.threshold_filtered = Append(@, idx)])
                    ELSE LET added == [acc EXCEPT !.refs = Append(@,
                                           [idx |-> idx, key |-> candidate_key,
                                            summary |-> Get(meta_entry, "Summary"),
                                            score |-> score])]
                         IN IF Len(added.refs) >= top_k THEN added ELSE rest(added)

NoDiag == [kind |-> "scored", row_size |-> 0, n_above_threshold |-> 0,
           self_skips |-> <<>>, threshold_filtered |-> <<>>, returned_count |-> 0]

QueryResult(issue, key_field, refs, diag) ==
    [input_key |-> _safe_key(issue, key_field), input_summary |-> GetD(issue, "Summary", ""),
     references |-> refs, diagnostics |-> diag]

\* the result of one issue in the scoring loop
Scored(issue, row, order, meta, key_field, top_k, score_threshold, debug) ==
    LET out == FilterLoop(TopIdxs(order, top_k), 1,
                          [refs |-> <<>>, self_skips |-> <<>>, threshold_filtered |-> <<>>],
                          row, meta, _safe_key(issue, key_field), top_k, score_threshold, debug)
        above == Cardinality({j \in 1..Len(row) : row[j] >= score_threshold})
    IN QueryResult(issue, key_field, out.refs,
                   [NoDiag EXCEPT !.row_size = Len(row), !.n_above_threshold = above,
                                  !.self_skips = out.self_skips,
                                  !.threshold_filtered = out.threshold_filtered,
                                  !.returned_count = Len(out.refs)])

\* the orders np.argsort may give for the rows of sims, one per issue
RECURSIVE OrdersOf(_)
OrdersOf(sims) ==
    IF sims = <<>> THEN {<<>>}
    ELSE {<<o>> \o rest : o \in Argsorts(sims[1]), rest \in OrdersOf(Tail(sims))}

QueryRet(shape, results, potential_assignee) ==
    [NoRet EXCEPT !.status = shape, !.results = results,
                  !.potential_assignee = potential_assignee]

\* what find_reference_issues returns once sims and the argsort orders are known:
\* status "list" is a bare list of results, "pair" the tuple
\* (results, potential_assignee)
Results(issues, meta_file, emb_file, q_dim, sims, orders, key_field, top_k, score_threshold, debug) ==
    IF ~Exists(emb_file) \/ ~Exists(meta_file)
    THEN QueryRet("list",
                  [i \in 1..Len(issues) |->
                      QueryResult(issues[i], key_field, <<>>,
                                  [NoDiag EXCEPT !.kind = "missing_files"])],
                  None)
    ELSE IF issues = <<>>
    THEN QueryRet("list", <<>>, None)
    ELSE IF DimMismatch(q_dim, emb_file.dim)
    THEN QueryRet("list",
                  [i \in 1..Len(issues) |->
                      QueryResult(issues[i], key_field, <<>>,
                                  [NoDiag EXCEPT !.kind = "dim_mismatch"])],
                  None)
    ELSE IF q_dim # emb_file.dim
    THEN QueryRet("ValueError", <<>>, None)   \* np.dot: shapes not aligned
    ELSE QueryRet("pair",
                  [i \in 1..Len(issues) |->
                      IF sims[i] = <<>>
                      THEN QueryResult(issues[i], key_field, <<>>, NoDiag)
                      ELSE Scored(issues[i], sims[i], orders[i], meta_file.data,
                                  key_field, top_k, score_threshold, debug)],
                  None)

find_reference_issues(issues, meta_file, emb_file, q_dim, orders, key_field, top_k, score_threshold, debug) ==
    Results(issues, meta_file, emb_file, q_dim, Sims(issues, meta_file, emb_file, q_dim),
            orders, key_field, top_k, score_threshold, debug)

\* the calls of assign_lru: one for each issue whose row of sims is not empty
AssignCalls(sims) == Cardinality({i \in 1..Len(sims) : sims[i] # <<>>})

\* the whole call: the results, and the rotation file as the calls of
\* assign_lru leave it
Query(issues, q_dim, sims, orders, top_k, score_threshold, debug) ==
    /\ pc = 0
    /\ call' = [op |-> "query", issues |-> issues, dim |-> q_dim, top_k |-> top_k,
                score_threshold |-> score_threshold, debug |-> debug,
                sims |-> sims, orders |-> orders]
    /\ LET r == Results(issues, metaFile, embFile, q_dim, sims, orders,
                        _DEFAULT_KEY_FIELD, top_k, score_threshold, debug)
           n == AssignCalls(sims)
           a == AssignTimes(n, jsonStore, csvFile)
       IN IF r.status # "pair"
          THEN ret' = r /\ UNCHANGED csvFile
          ELSE IF n = 0
          THEN ret' = QueryRet("UnboundLocalError", <<>>, None) /\ UNCHANGED csvFile
          ELSE ret' = [r EXCEPT !.potential_assignee = a.assignee] /\ csvFile' = a.csv
    /\ pc' = Returned
    /\ pre' = Snapshot
    /\ UNCHANGED <<files, jsonStore, run>>

FindReferences ==
    /\ pc = 0
    /\ \E issues \in QueryBatches, q_dim \in Dims :
           \E sims \in {Sims(issues, metaFile, embFile, q_dim)} :
               \E orders \in OrdersOf(sims) :
                   \E top_k \in 0..MaxTopK, score_threshold \in Thresholds, debug \in BOOLEAN :
                       Query(issues, q_dim, sims, orders, top_k, score_threshold, debug)

Init ==
    /\ metaFile = NoMetaFile
    /\ embFile = NoMatrixFile
    /\ annFile = NoMatrixFile
    /\ jsonStore = NoJsonStore
    /\ csvFile = NoCsvFile
    /\ pc = 0
    /\ run = NoRun
    /\ call = NoCall
    /\ ret = NoRet
    /\ pre = NoPre

Apply ==
    /\ pc = 0
    /\ \E issues \in Batches, embed_dim \in Dims : ApplyBegin(issues, embed_dim)

Next ==
    \/ Apply
    \/ EncodeOk
    \/ EncodeFail
    \/ SaveMeta
    \/ SaveEmbs
    \/ BuildAnnoy
    \/ FindReferences
    \/ CallerDone

Spec == Init /\ [][Next]_vars

NextCrash == Next \/ Crash

SpecCrash == Init /\ [][NextCrash]_vars

\* the pipeline of main.py: the batch goes to the JSON store, to the indexer
\* and to the query, the query with the arguments main.py gives it
PipelineTopK == 5
PipelineThreshold == One \div 2

PipelineBatches == SeqsUpTo(StorePool, MaxPipelineBatch)

PipelineIndex ==
    /\ pc = 0
    /\ \E issues \in PipelineBatches : ApplyBegin(issues, _DEFAULT_DIM)

PipelineQuery ==
    /\ pc = 0
    /\ \E issues \in PipelineBatches :
           \E sims \in {Sims(issues, metaFile, embFile, _DEFAULT_DIM)} :
               \E orders \in OrdersOf(sims) :
                   Query(issues, _DEFAULT_DIM, sims, orders, PipelineTopK,
                         PipelineThreshold, FALSE)

NextPipeline ==
    \/ AppendToJsonStore
    \/ PipelineIndex
    \/ EncodeOk
    \/ EncodeFail
    \/ SaveMeta
    \/ SaveEmbs
    \/ BuildAnnoy
    \/ PipelineQuery
    \/ CallerDone

SpecPipeline == Init /\ [][NextPipeline]_vars

\* the JSON store and the rotation on their own
NextStore == AppendToJsonStore \/ AssignLru \/ CallerDone

SpecStore == Init /\ [][NextStore]_vars

(***************************************************************************)
(* Properties.                                                             *)
(***************************************************************************)
ApplyReturned == pc = Returned /\ call.op = "apply"
QueryReturned == pc = Returned /\ call.op = "query"

Succeeded == ret.status \in {"built_from_all", "incremental_ok"}

\* the key-bearing records of a batch, in batch order
KeyBearing(issues) == SelectSeq(issues, LAMBDA t : IndexKey(t, _DEFAULT_KEY_FIELD) # "")

\* C1: after a run that returned normally, a second run with the identical
\* batch returns no_new_or_changed with added = 0 (and so leaves the persisted
\* row count as the first run left it).
C1_Idempotent ==
    (ApplyReturned /\ ret.status \in {"built_from_all", "incremental_ok", "no_new_or_changed"})
        => LET second == EarlyRet(Plan(metaFile, embFile, call.issues, call.dim))
           IN second.status = "no_new_or_changed" /\ second.added = 0

\* C2: a successful run leaves every row that existed before it as it was, in
\* metadata and in the matrix, gives the rows it adds higher ids, and no run
\* lowers the persisted row counts.
C2_AppendOnly ==
    /\ Succeeded /\ ApplyReturned =>
          /\ \A i \in 1..Len(pre.meta.data) :
                /\ pre.meta.data[i][1] \in DictKeys(metaFile.data)
                /\ DictGet(metaFile.data, pre.meta.data[i][1]) = pre.meta.data[i][2]
          /\ \A i \in 1..Len(pre.embs.rows) :
                i <= Len(embFile.rows) /\ embFile.rows[i] = pre.embs.rows[i]
          /\ \A i \in 1..Len(metaFile.data) :
                metaFile.data[i][1] \notin DictKeys(pre.meta.data)
                    => \A j \in 1..Len(pre.meta.data) :
                           ParseInt(metaFile.data[i][1]) > ParseInt(pre.meta.data[j][1])
    /\ call.op = "apply" =>
          /\ Len(metaFile.data) >= Len(pre.meta.data)
          /\ Len(embFile.rows) >= Len(pre.embs.rows)

\* a changed record got a new row next to the old row of its key
C2_Witness ==
    /\ ApplyReturned /\ ret.status = "incremental_ok"
    /\ \E i \in 1..Len(pre.meta.data) : \E j \in (Len(pre.meta.data) + 1)..Len(metaFile.data) :
           /\ metaFile.data[j][2]["key"] = pre.meta.data[i][2]["key"]
           /\ metaFile.data[j][2] # pre.meta.data[i][2]

\* C3: whenever no write is under way, also after an interrupted run, the
\* metadata file and the matrix file have the same number of rows.
C3_AtomicSnapshot ==
    pc \in {0, Returned} => Len(metaFile.data) = Len(embFile.rows)

\* C4: no reference of a query result has the key of the query record, for a
\* query record with a non-empty key.
C4_NoSelfReference ==
    QueryReturned =>
        \A i \in 1..Len(ret.results) :
            ret.results[i].input_key # "" =>
                \A r \in 1..Len(ret.results[i].references) :
                    ret.results[i].references[r].key # ret.results[i].input_key

\* a query whose key is on two stored rows skipped a self-match and still
\* returned a reference
C4_Witness ==
    /\ QueryReturned
    /\ \E i \in 1..Len(ret.results) :
           /\ ret.results[i].diagnostics.self_skips # <<>>
           /\ ret.results[i].references # <<>>
           /\ Cardinality({m \in 1..Len(metaFile.data) :
                              metaFile.data[m][2]["key"] = ret.results[i].input_key}) >= 2

\* C5: for the query just answered, any higher threshold gives every issue at
\* most as many references.
C5_ThresholdMonotone ==
    QueryReturned =>
        \A t2 \in Thresholds :
            t2 > call.score_threshold =>
                LET higher == Results(call.issues, metaFile, embFile, call.dim, call.sims,
                                      call.orders, _DEFAULT_KEY_FIELD, call.top_k, t2,
                                      call.debug)
                IN \A i \in 1..Len(ret.results) :
                       Len(higher.results[i].references) <= Len(ret.results[i].references)

\* a query returned a reference that a higher threshold rejects
C5_Witness ==
    /\ QueryReturned
    /\ \E t2 \in Thresholds, i \in 1..Len(ret.results) :
           /\ t2 > call.score_threshold
           /\ ret.results[i].references # <<>>
           /\ Results(call.issues, metaFile, embFile, call.dim, call.sims, call.orders,
                      _DEFAULT_KEY_FIELD, call.top_k, t2, call.debug).results[i].references = <<>>

StoreOnDisk == Exists(metaFile) /\ Exists(embFile)

\* C6: a query whose embedding dimension differs from the stored one returns,
\* without raising, one result per input record, each with no references and
\* the dimension-mismatch diagnostic.
C6_DimMismatchDegrades ==
    (QueryReturned /\ StoreOnDisk /\ call.dim # embFile.dim /\ call.issues # <<>>) =>
        /\ ret.status = "list"
        /\ Len(ret.results) = Len(call.issues)
        /\ \A i \in 1..Len(ret.results) :
               /\ ret.results[i].input_key = _safe_key(call.issues[i], _DEFAULT_KEY_FIELD)
               /\ ret.results[i].references = <<>>
               /\ ret.results[i].diagnostics.kind = "dim_mismatch"

C6_Witness ==
    /\ QueryReturned /\ StoreOnDisk /\ call.dim # embFile.dim
    /\ Len(call.issues) >= 1
    /\ ret.results[1].diagnostics.kind = "dim_mismatch"

\* C7: a run on a store with no metadata and n >= 1 key-bearing records, whose
\* embedding call succeeds, returns built_from_all with added = index_size = n
\* and persists n rows with the ids 0..n-1 in batch order.
C7_ColdStart ==
    (ApplyReturned /\ ~Exists(pre.meta) /\ KeyBearing(call.issues) # <<>>
                   /\ ret.status # "EmbeddingError") =>
        LET kb == KeyBearing(call.issues)
            n == Len(kb)
        IN /\ ret.status = "built_from_all"
           /\ ret.added = n
           /\ ret.index_size = n
           /\ Len(metaFile.data) = n
           /\ Len(embFile.rows) = n
           /\ \A i \in 1..n :
                  /\ metaFile.data[i][1] = Str(i - 1)
                  /\ metaFile.data[i][2]["key"] = IndexKey(kb[i], _DEFAULT_KEY_FIELD)
                  /\ metaFile.data[i][2]["Assignee"] = Get(kb[i], "Assignee")

\* a first build of two records with one key
C7_Witness ==
    /\ ApplyReturned /\ ~Exists(pre.meta) /\ ret.status = "built_from_all"
    /\ ret.added = 2
    /\ metaFile.data[1][2]["key"] = metaFile.data[2][2]["key"]

Corrupt(meta_file, emb_file) ==
    Exists(meta_file) /\ Exists(emb_file) /\ Len(meta_file.data) # Len(emb_file.rows)

\* C8: a load of a store whose metadata and matrix disagree on the row count,
\* by the indexer or by the query, fails.
C8_LoadDetectsCorruptState ==
    /\ (ApplyReturned /\ Corrupt(pre.meta, pre.embs)) => ret.status = "ValueError"
    /\ (QueryReturned /\ Corrupt(metaFile, embFile)) => ret.status = "ValueError"

\* the text embedded for a stored body
BodyText(summary) == IF summary = None THEN "" ELSE summary

\* C9: between runs the row ids of the metadata are exactly 0..n-1, n the number
\* of matrix rows, and matrix row i is the embedding of the body of metadata
\* row i.
C9_DenseAligned ==
    pc \in {0, Returned} =>
        LET n == Len(embFile.rows)
        IN /\ {ParseInt(k) : k \in DictKeys(metaFile.data)} = 0..(n - 1)
           /\ Len(metaFile.data) = n
           /\ \A i \in 0..(n - 1) :
                  embFile.rows[i + 1] =
                      _l2_normalize(Encode(BodyText(DictGet(metaFile.data, Str(i))["Summary"]),
                                           embFile.dim))

\* a store of at least two rows with different vectors, grown by a second run
C9_Witness ==
    /\ ApplyReturned /\ ret.status = "incremental_ok"
    /\ Len(embFile.rows) >= 2
    /\ embFile.rows[1] # embFile.rows[Len(embFile.rows)]

\* C10: when the embedding call of a run fails, the three files are as they
\* were when the run began.
C10_EmbeddingFailureLeavesStore ==
    (ApplyReturned /\ ret.status = "EmbeddingError") =>
        /\ metaFile = pre.meta
        /\ embFile = pre.embs
        /\ annFile = pre.ann

\* the embedding call of an incremental run failed
C10_Witness ==
    /\ ApplyReturned /\ ret.status = "EmbeddingError"
    /\ Exists(pre.meta) /\ Exists(annFile)

\* C11: when no run is in progress an Annoy artifact that exists holds exactly
\* the rows of the persisted matrix, at least one; it exists after every run
\* that returned built_from_all or incremental_ok, and does not exist while
\* the matrix has no rows.
C11_AnnoyTracksSnapshot ==
    pc \in {0, Returned} =>
        /\ Exists(annFile) =>
              /\ Exists(embFile)
              /\ annFile.rows = embFile.rows
              /\ annFile.dim = embFile.dim
              /\ Len(annFile.rows) >= 1
        /\ (ApplyReturned /\ Succeeded) => Exists(annFile)
        /\ embFile.rows = <<>> => ~Exists(annFile)

\* an incremental run replaced the artifact of the run before it
C11_Witness ==
    /\ ApplyReturned /\ ret.status = "incremental_ok"
    /\ Exists(pre.ann) /\ Exists(annFile)
    /\ Len(annFile.rows) > Len(pre.ann.rows)

\* C12: a call of find_reference_issues leaves the metadata file, the matrix
\* file, the Annoy artifact and the rotation file as it found them.
C12_QueryReadOnly ==
    QueryReturned =>
        /\ metaFile = pre.meta
        /\ embFile = pre.embs
        /\ annFile = pre.ann
        /\ csvFile = pre.csv

\* the logical key of a record: the first non-empty of the key field, the id
\* field and the body
LogicalKey(t) ==
    IF Get(t, "Issue key") \notin {None, ""} THEN Get(t, "Issue key")
    ELSE IF Get(t, "Issue id") \notin {None, ""} THEN Get(t, "Issue id")
    ELSE IF Get(t, "Summary") \notin {None, ""} THEN Get(t, "Summary")
    ELSE ""

\* the rows of a key, and the row of the key with the highest row id
RowsOfKey(meta, key) == {i \in 1..Len(meta) : meta[i][2]["key"] = key}

LatestRow(meta, key) ==
    meta[CHOOSE i \in RowsOfKey(meta, key) :
             \A j \in RowsOfKey(meta, key) : ParseInt(meta[j][1]) <= ParseInt(meta[i][1])][2]

\* a key-bearing record that is new, or whose body or owner is not that of the
\* latest row of its key; a record without a body has the body of a row
\* without one
IsNewOrChanged(t, meta) ==
    /\ LogicalKey(t) # ""
    /\ \/ RowsOfKey(meta, LogicalKey(t)) = {}
       \/ BodyText(LatestRow(meta, LogicalKey(t))["Summary"]) # BodyText(Get(t, "Summary"))
       \/ LatestRow(meta, LogicalKey(t))["Assignee"] # Get(t, "Assignee")

Raised == {"ValueError", "EmbeddingError", "crashed"}

\* C13: a completed apply returns one of the four statuses: no_data iff the
\* store is empty and no record has a key, built_from_all iff the store is
\* empty and some record has a key, no_new_or_changed iff the store is not
\* empty and no record is new or changed, incremental_ok otherwise; added is
\* the number of rows the run appended and index_size the number of rows
\* persisted after it.
C13_OutcomeMapping ==
    (ApplyReturned /\ ret.status \notin Raised) =>
        LET empty == pre.meta.data = <<>>
            keyed == \E i \in 1..Len(call.issues) : LogicalKey(call.issues[i]) # ""
            delta == \E i \in 1..Len(call.issues) : IsNewOrChanged(call.issues[i], pre.meta.data)
        IN /\ ret.status \in {"no_data", "built_from_all", "no_new_or_changed", "incremental_ok"}
           /\ ret.status = "no_data" <=> (empty /\ ~keyed)
           /\ ret.status = "built_from_all" <=> (empty /\ keyed)
           /\ ret.status = "no_new_or_changed" <=> (~empty /\ ~delta)
           /\ ret.status = "incremental_ok" <=> (~empty /\ delta)
           /\ ret.added = Len(metaFile.data) - Len(pre.meta.data)
           /\ ret.index_size = Len(embFile.rows)

NoKeyBearing(issues) == \A i \in 1..Len(issues) : LogicalKey(issues[i]) = ""

\* C14 as stated: on any store, empty or populated, an apply of a batch
\* without a key-bearing record that returns a result returns no_data.
C14_NoDataOnAnyStore ==
    (ApplyReturned /\ NoKeyBearing(call.issues) /\ ret.status \notin Raised) =>
        ret.status = "no_data"

\* C14 as amended: an apply of a batch without a key-bearing record embeds
\* nothing and writes nothing; on a store without metadata it returns no_data,
\* on a populated store no_new_or_changed with added = 0 and the row count of
\* the store, and it raises only when the stored matrix does not have the
\* configured dimension.
C14_NoUsableInput ==
    (ApplyReturned /\ NoKeyBearing(call.issues)) =>
        /\ Snapshot = pre
        /\ run = NoRun
        /\ IF pre.meta.data = <<>>
           THEN ret = ApplyRet("no_data", 0, 0)
           ELSE IF call.dim # pre.embs.dim
           THEN ret.status = "ValueError"
           ELSE ret = ApplyRet("no_new_or_changed", 0, Len(pre.embs.rows))

\* a batch of keyless records was applied to a populated store
C14_Witness ==
    /\ ApplyReturned /\ NoKeyBearing(call.issues) /\ call.issues # <<>>
    /\ pre.meta.data # <<>>
    /\ ret.status = "no_new_or_changed"

AppendReturned == pc = Returned /\ call.op = "append"

StoreKey(item) == Get(item, "Issue key")

\* C15 as stated: no two items of the JSON store have the same key field
\* value; a call keeps the items it found where they were, returns
\* loaded + skipped_duplicates = the number of input items and existing = the
\* number of items stored.
C15_NoDuplicateKeys ==
    /\ \A i, j \in 1..Len(jsonStore.data) :
           i # j => StoreKey(jsonStore.data[i]) # StoreKey(jsonStore.data[j])
    /\ AppendReturned =>
           /\ SubSeq(jsonStore.data, 1, Len(pre.json.data)) = pre.json.data
           /\ ret.loaded + ret.skipped_duplicates = Len(call.issues)
           /\ ret.existing = Len(jsonStore.data)

\* C15 as amended: no two items of the JSON store whose key field value is
\* not null have the same key field value (an item with a missing or null key
\* field is always appended); a call keeps the items it found where they were,
\* appends the items it loads after them, and returns loaded +
\* skipped_duplicates = the number of input items and existing = the number of
\* items stored.
C15_StoreDedup ==
    /\ \A i, j \in 1..Len(jsonStore.data) :
           (i # j /\ StoreKey(jsonStore.data[i]) # None)
               => StoreKey(jsonStore.data[i]) # StoreKey(jsonStore.data[j])
    /\ AppendReturned =>
           /\ Len(jsonStore.data) >= Len(pre.json.data)
           /\ SubSeq(jsonStore.data, 1, Len(pre.json.data)) = pre.json.data
           /\ ret.loaded = Len(jsonStore.data) - Len(pre.json.data)
           /\ ret.loaded + ret.skipped_duplicates = Len(call.issues)
           /\ ret.existing = Len(jsonStore.data)
           /\ \A i \in 1..Len(call.issues) :
                  \E j \in 1..Len(jsonStore.data) :
                      IF StoreKey(call.issues[i]) = None
                      THEN jsonStore.data[j] = call.issues[i]
                      ELSE StoreKey(jsonStore.data[j]) = StoreKey(call.issues[i])

\* a call on a store that holds items loaded one item and skipped another
C15_Witness ==
    /\ AppendReturned
    /\ pre.json.data # <<>>
    /\ ret.loaded >= 1
    /\ ret.skipped_duplicates >= 1

AssignReturned == pc = Returned /\ call.op = "assign"

SeqSet(q) == {q[i] : i \in 1..Len(q)}

\* the assignees named by the issues of the JSON store
JsonNames(json_file) == {Get(json_file.data[i], "Assignee") : i \in 1..Len(json_file.data)} \ {None}

\* C16: with a rotation file of n >= 1 distinct assignees a call of assign_lru
\* returns the first of them and moves it to the end, so the k-th of n calls in
\* a row returns the k-th assignee and after n calls the file is as it was;
\* the set of assignees in the file stays the same; and a call returns None
\* exactly when neither the rotation file nor the JSON store names an assignee.
C16_RoundRobin ==
    AssignReturned =>
        LET r == pre.csv.rows
            n == Len(r)
        IN /\ n >= 1 =>
                 /\ ret.potential_assignee = r[1]
                 /\ csvFile.rows = Tail(r) \o <<r[1]>>
                 /\ SeqSet(csvFile.rows) = SeqSet(r)
                 /\ Cardinality(SeqSet(r)) = n
                 /\ \A k \in 1..n : AssignTimes(k, jsonStore, pre.csv).assignee = r[k]
                 /\ AssignTimes(n, jsonStore, pre.csv).csv = pre.csv
           /\ ret.potential_assignee = None <=> (SeqSet(r) = {} /\ JsonNames(pre.json) = {})

\* a call on a rotation file of two assignees
C16_Witness ==
    /\ AssignReturned
    /\ Len(pre.csv.rows) = 2
    /\ ret.potential_assignee = pre.csv.rows[1]
    /\ csvFile.rows[2] = pre.csv.rows[1]

\* the rows a run appended, oldest first
Appended == SubSeq(metaFile.data, Len(pre.meta.data) + 1, Len(metaFile.data))

\* the records of the batch that an incremental run has to append
ToAppend(issues, meta) == SelectSeq(issues, LAMBDA t : IsNewOrChanged(t, meta))

\* C17: on a non-empty store a completed apply appends one row for each
\* key-bearing record whose key has no row or whose body or owner differs from
\* the latest row of its key, in batch order, and no other row.
C17_ChangeClassification ==
    (ApplyReturned /\ pre.meta.data # <<>> /\ ret.status \notin Raised) =>
        LET rec == ToAppend(call.issues, pre.meta.data)
        IN /\ Len(Appended) = Len(rec)
           /\ \A i \in 1..Len(rec) :
                  /\ Appended[i][2]["key"] = LogicalKey(rec[i])
                  /\ BodyText(Appended[i][2]["Summary"]) = BodyText(Get(rec[i], "Summary"))
                  /\ Appended[i][2]["Assignee"] = Get(rec[i], "Assignee")

Keyed(issues) == SelectSeq(issues, LAMBDA t : LogicalKey(t) # "")

\* C18: the key of a row is the first non-empty of the key field, the id field
\* and the body of its record; a record without any of them gets no row and is
\* not counted in added, on a first build and on an incremental run; and the
\* query gives each record the key of the same chain.
C18_KeyDerivation ==
    /\ (ApplyReturned /\ ret.status \notin Raised) =>
          /\ ret.added = Len(Appended)
          /\ Len(Appended) <= Len(Keyed(call.issues))
          /\ \A i \in 1..Len(Appended) :
                 /\ Appended[i][2]["key"] # ""
                 /\ \E j \in 1..Len(call.issues) :
                        /\ Appended[i][2]["key"] = LogicalKey(call.issues[j])
                        /\ Appended[i][2]["Issue key"] = Get(call.issues[j], "Issue key")
                        /\ Appended[i][2]["Issue id"] = Get(call.issues[j], "Issue id")
          /\ pre.meta.data = <<>> =>
                 /\ Len(Appended) = Len(Keyed(call.issues))
                 /\ \A i \in 1..Len(Appended) :
                        Appended[i][2]["key"] = LogicalKey(Keyed(call.issues)[i])
          /\ \A j \in 1..Len(call.issues) :
                 RowsOfKey(pre.meta.data, LogicalKey(call.issues[j])) = {}
                     => (RowsOfKey(metaFile.data, LogicalKey(call.issues[j])) # {}
                            <=> LogicalKey(call.issues[j]) # "")
    /\ (QueryReturned /\ ret.status \in {"list", "pair"}) =>
          \A i \in 1..Len(ret.results) :
              ret.results[i].input_key = LogicalKey(call.issues[i])

\* a run dropped a record without a key and stored a record under a fallback
C18_Witness ==
    /\ ApplyReturned /\ Succeeded
    /\ ret.added = 1
    /\ \E j \in 1..Len(call.issues) : LogicalKey(call.issues[j]) = ""
    /\ \E j \in 1..Len(call.issues) :
           /\ LogicalKey(call.issues[j]) # ""
           /\ LogicalKey(call.issues[j]) # Get(call.issues[j], "Issue key")

\* the key stored on the row with id idx
RowKey(meta, idx) == DictGet(meta, Str(idx))["key"]

\* the ranking of all rows without the rows of the query's own key and the
\* rows below the threshold
Survivors(order, row, meta, input_key, score_threshold) ==
    SelectSeq(order, LAMBDA idx : /\ ~(input_key # "" /\ RowKey(meta, idx) = input_key)
                                  /\ row[idx + 1] >= score_threshold)

FirstK(q, k) == IF Len(q) <= k THEN q ELSE SubSeq(q, 1, k)

\* C19: the references of a query are the first top_k entries, in rank order,
\* of the ranking of all stored rows without self-matches and without rows
\* below the threshold.
C19_TopK ==
    (QueryReturned /\ ret.status = "pair") =>
        \A i \in 1..Len(ret.results) :
            LET refs == ret.results[i].references
                want == FirstK(Survivors(call.orders[i], call.sims[i], metaFile.data,
                                         ret.results[i].input_key, call.score_threshold),
                               call.top_k)
            IN /\ Len(refs) = Len(want)
               /\ \A r \in 1..Len(refs) :
                      /\ refs[r].idx = want[r]
                      /\ refs[r].score = call.sims[i][want[r] + 1]

\* the candidates the filter loop looks at, in rank order
Window(order, top_k) == FirstK(order, top_k * 2)

\* C20: whatever the debug flag, the diagnostics of a result list the
\* candidates skipped as self-matches apart from the candidates rejected by
\* the threshold, and a candidate that is a self-match is listed as a
\* self-skip only, also when its score is below the threshold.
C20_Diagnostics ==
    (QueryReturned /\ ret.status = "pair") =>
        \A i \in 1..Len(ret.results) :
            LET d == ret.results[i].diagnostics
                key == ret.results[i].input_key
                selfs == {idx \in SeqSet(Window(call.orders[i], call.top_k)) :
                             key # "" /\ RowKey(metaFile.data, idx) = key}
            IN /\ SeqSet(d.self_skips) \cap SeqSet(d.threshold_filtered) = {}
               /\ SeqSet(d.threshold_filtered) \cap selfs = {}
               /\ \A idx \in SeqSet(d.threshold_filtered) :
                      call.sims[i][idx + 1] < call.score_threshold
               /\ SeqSet(d.self_skips) \subseteq selfs
               /\ ret.results[i].references = <<>> => SeqSet(d.self_skips) = selfs

\* the rows of a key in row order, each with a body or an owner that is not
\* that of the row of the key before it: a store whose keys have several rows
\* only because their records changed
RowsAreChanges(meta) ==
    \A i, j \in 1..Len(meta) :
        (/\ i < j
         /\ meta[i][2]["key"] = meta[j][2]["key"]
         /\ \A m \in (i + 1)..(j - 1) : meta[m][2]["key"] # meta[i][2]["key"])
            => \/ BodyText(meta[i][2]["Summary"]) # BodyText(meta[j][2]["Summary"])
               \/ meta[i][2]["Assignee"] # meta[j][2]["Assignee"]

\* the highest row id stored for the key of row idx
HighestRowOfKey(meta, idx) ==
    CHOOSE h \in 0..(Len(meta) - 1) :
        /\ RowKey(meta, h) = RowKey(meta, idx)
        /\ \A g \in 0..(Len(meta) - 1) : RowKey(meta, g) = RowKey(meta, idx) => g <= h

\* C21: on a store whose keys have several rows only through changes of their
\* records, every reference of a query is the row with the highest row id of
\* its key, and no key occurs twice among the references of one result.
C21_NoStaleReferences ==
    (QueryReturned /\ ret.status = "pair" /\ RowsAreChanges(metaFile.data)) =>
        \A i \in 1..Len(ret.results) :
            LET refs == ret.results[i].references
            IN /\ \A r \in 1..Len(refs) :
                      refs[r].idx = HighestRowOfKey(metaFile.data, refs[r].idx)
               /\ \A r, s \in 1..Len(refs) : r # s => refs[r].key # refs[s].key

\* C22: every query that returns, whatever its return path (store files
\* missing, no input records, dimension mismatch, no stored rows, scoring),
\* returns the pair (results, potential_assignee) with one result per input
\* record, so that the caller's unpacking into two names does not fail.
C22_UniformReturnShape ==
    QueryReturned =>
        /\ ret.status = "pair"
        /\ Len(ret.results) = Len(call.issues)

\* exactly one of the two files of the store is on disk
HalfStore(meta_file, emb_file) == Exists(meta_file) # Exists(emb_file)

\* q begins with p
IsPrefix(p, q) == Len(p) <= Len(q) /\ \A i \in 1..Len(p) : q[i] = p[i]

\* C23: an apply that finds exactly one of the metadata file and the matrix
\* file does not take the store for empty: it does not end as a first build
\* (built_from_all or no_data), and the metadata rows it found are still the
\* first rows of the metadata file when it returns.
C23_EmptyOnlyWhenAbsent ==
    (ApplyReturned /\ HalfStore(pre.meta, pre.embs)) =>
        /\ ret.status \notin {"built_from_all", "no_data"}
        /\ IsPrefix(pre.meta.data, metaFile.data)

(***************************************************************************)
(* Repeated calls of assign_lru: whenever the caller is between calls it   *)
(* may take any call, and it calls assign_lru again and again.             *)
(***************************************************************************)
SpecStoreFair == SpecStore /\ WF_vars(CallerDone) /\ SF_vars(AssignLru)

\* the assignees the issues of the store pool name
AssigneeNames == {"a1", "a2"}

\* a call of assign_lru has returned the assignee a
Served(a) == AssignReturned /\ ret.potential_assignee = a

\* C24: under repeated calls of assign_lru, an assignee named by an issue of
\* the JSON store is eventually returned by a call, also when the issue was
\* appended after the rotation file was created.
C24_EveryAssigneeServed ==
    \A a \in AssigneeNames : (a \in JsonNames(jsonStore)) ~> Served(a)

====
